---------------------------- MODULE Spec2Model ----------------------------
(***************************************************************************)
(* A model of go-breakermux (src/cbmux.go, the current revision at lines   *)
(* 107-350): CircuitBreakerMux keeps one gobreaker.CircuitBreaker per key  *)
(* in a sync.Map of *cache slots, runs the ExecClosure through the key's   *)
(* breaker, and optionally expires slots from a background goroutine.      *)
(*                                                                         *)
(* Time is a discrete clock `now`; time.Now() reads it.  A slot and the    *)
(* breaker it wraps are heap objects named by their index in `caches` and  *)
(* `cbs`; the map `breakers` holds a slot index per key (0: no entry).     *)
(* Every goroutine's position is explicit: each caller of Get/GetKeyExec,  *)
(* the expiry goroutine started by NewMux, and the caller of Close.        *)
(***************************************************************************)
EXTENDS Integers, Sequences, FiniteSets, TLC

\* ------------------------------------------------------------ bounds

\* The clock runs from 0 to MaxTime.
MaxTime == 2
\* Get calls started in one behaviour of Spec.
MaxCalls == 1
\* Get calls started in one behaviour of SpecExpiry.
ExpiryCalls == 2
\* Get/GetKeyExec calls started in one behaviour of SpecSeq.
SeqCalls == 7
\* Get calls started in one behaviour of SpecClose.
CloseCalls == 2
\* Get/GetKeyExec calls started in one behaviour of SpecRace.
RaceCalls == 3
\* Get/GetKeyExec calls started in one behaviour of SpecSlot.
SlotCalls == 3
\* Get calls started in one behaviour of SpecEvict.
EvictCalls == 2
\* Get/GetKeyExec calls started in one behaviour of SpecReuse.
ReuseCalls == 3

\* ------------------------------------------------- program constants

\* Default ReadyToTrip: more than 5 consecutive failures.
DefaultTripThreshold == 5
\* Timeout <= 0 means 60 (seconds; here clock units).
DefaultTimeout == 60
\* MaxRequests = 0 means 1 request in the half-open state.
DefaultMaxRequests == 1

\* ------------------------------------------------------------ inputs

Keys == {"yes", "no"}
Execs == {"yes", "no"}
Callers == {1, 2}

VARIABLES
    st,         \* Settings passed to NewMux (never changed afterwards)
    now,        \* the clock
    breakers,   \* c.breakers: key -> slot index, 0 when the key has no entry
    caches,     \* heap of cache slots: [item, atime, mtime]
    cbs,        \* heap of gobreaker.CircuitBreaker objects
    callers,    \* each calling goroutine's position in Get/GetKeyExec
    sched,      \* the expiry goroutine of NewMux
    killChan,   \* c.killChan: "open" or "closed"
    closer,     \* the goroutine calling Close: its position
    reported,   \* last state passed to OnStateChange, per breaker name
    calls,      \* Get/GetKeyExec calls started so far
    ret,        \* what the call that returned in the last step returned
    made,       \* breakers constructed per key since the key's last eviction
    lastCb,     \* breaker used by the key's last returned call since eviction
    run,        \* per key: the run of failing calls since the key was first used
    idle        \* slots the running sweep found stale and nobody touched since

vars == <<st, now, breakers, caches, cbs, callers, sched, killChan, closer,
          reported, calls, ret, made, lastCb, run, idle>>

\* ------------------------------------------ gobreaker.CircuitBreaker

ZeroCounts ==
    [Requests |-> 0, TotalSuccesses |-> 0, TotalFailures |-> 0,
     ConsecutiveSuccesses |-> 0, ConsecutiveFailures |-> 0]

\* time.Time values of the breaker: {} is the zero Time, {t} the instant t.
ZeroTime == {}
IsZero(e) == e = {}
Before(e, t) == \A x \in e : x < t

maxRequests(s) == IF s.MaxRequests = 0 THEN DefaultMaxRequests ELSE s.MaxRequests
interval(s) == IF s.Interval <= 0 THEN 0 ELSE s.Interval
timeout(s) == IF s.Timeout <= 0 THEN DefaultTimeout ELSE s.Timeout

\* A ReadyToTrip that trips at 5 consecutive failures instead of above 5.
ReadyToTripAtThreshold(counts) == counts.ConsecutiveFailures >= DefaultTripThreshold

\* The default ReadyToTrip.
ReadyToTrip(counts) == counts.ConsecutiveFailures > DefaultTripThreshold

\* A ReadyToTrip supplied in Settings: trip on the first failure.
TripOnFirstFailure(counts) == counts.ConsecutiveFailures > 0

\* cb.readyToTrip: Settings.ReadyToTrip, or the default when it is nil.
readyToTrip(s, counts) ==
    IF s.ReadyToTrip = "nil" THEN ReadyToTrip(counts) ELSE TripOnFirstFailure(counts)

\* The default IsSuccessful.
IsSuccessful(err) == err = "nil"

onRequest(c) == [c EXCEPT !.Requests = @ + 1]
onSuccess(c) ==
    [c EXCEPT !.TotalSuccesses = @ + 1, !.ConsecutiveSuccesses = @ + 1,
              !.ConsecutiveFailures = 0]
onFailure(c) ==
    [c EXCEPT !.TotalFailures = @ + 1, !.ConsecutiveFailures = @ + 1,
              !.ConsecutiveSuccesses = 0]

toNewGeneration(b, t) ==
    [b EXCEPT !.generation = @ + 1,
              !.counts = ZeroCounts,
              !.expiry = CASE b.state = "closed" ->
                                IF interval(st) = 0 THEN ZeroTime
                                ELSE {t + interval(st)}
                           [] b.state = "open" -> {t + timeout(st)}
                           [] OTHER -> ZeroTime]

setState(b, s, t) ==
    IF b.state = s THEN b
    ELSE toNewGeneration([b EXCEPT !.state = s], t)

currentState(b, t) ==
    CASE b.state = "closed" ->
            IF ~IsZero(b.expiry) /\ Before(b.expiry, t)
            THEN toNewGeneration(b, t) ELSE b
      [] b.state = "open" ->
            IF Before(b.expiry, t) THEN setState(b, "half-open", t) ELSE b
      [] OTHER -> b

\* A constructor that starts the breaker in the state last reported for its
\* name.
NewCircuitBreakerRemembers(name, t) ==
    toNewGeneration([name |-> name, state |-> reported[name], generation |-> 0,
                     counts |-> ZeroCounts, expiry |-> ZeroTime], t)

\* gobreaker.NewCircuitBreaker(ust), ust.Name = name.
NewCircuitBreaker(name, t) ==
    toNewGeneration([name |-> name, state |-> "closed", generation |-> 0,
                     counts |-> ZeroCounts, expiry |-> ZeroTime], t)

\* beforeRequest: the breaker afterwards, the generation, and the error.
beforeRequest(b, t) ==
    LET c == currentState(b, t) IN
    IF c.state = "open"
    THEN [cb |-> c, generation |-> c.generation, err |-> "ErrOpenState"]
    ELSE IF c.state = "half-open" /\ c.counts.Requests >= maxRequests(st)
    THEN [cb |-> c, generation |-> c.generation, err |-> "ErrTooManyRequests"]
    ELSE [cb |-> [c EXCEPT !.counts = onRequest(@)],
          generation |-> c.generation, err |-> "nil"]

breakerOnSuccess(b, t) ==
    CASE b.state = "closed" -> [b EXCEPT !.counts = onSuccess(@)]
      [] b.state = "half-open" ->
            LET c == [b EXCEPT !.counts = onSuccess(@)] IN
            IF c.counts.ConsecutiveSuccesses >= maxRequests(st)
            THEN setState(c, "closed", t) ELSE c
      [] OTHER -> b

breakerOnFailure(b, t) ==
    CASE b.state = "closed" ->
            LET c == [b EXCEPT !.counts = onFailure(@)] IN
            IF readyToTrip(st, c.counts) THEN setState(c, "open", t) ELSE c
      [] b.state = "half-open" -> setState(b, "open", t)
      [] OTHER -> b

afterRequest(b, before, success, t) ==
    LET c == currentState(b, t) IN
    IF c.generation # before THEN c
    ELSE IF success THEN breakerOnSuccess(c, t) ELSE breakerOnFailure(c, t)

\* OnStateChange(name, from, to): the observer keeps `to` per name.
Notify(rep, old, new) ==
    IF old.state # new.state THEN [rep EXCEPT ![new.name] = new.state] ELSE rep

\* ------------------------------------------------------ ExecClosure

\* The ExecClosure of the tests and the example: "yes" succeeds, all else fails.
ExecClosure(input) ==
    IF input = "yes" THEN [value |-> "yes", err |-> "nil"]
    ELSE [value |-> "no", err |-> "Noo"]


\* ------------------------------------------------------------- heap

\* Objects no goroutine and no map entry refers to are garbage: they are
\* replaced by a fixed value, their index is never used again.
FreedCache == [item |-> 0, atime |-> 0, mtime |-> 0]
FreedCb ==
    [name |-> "", state |-> "closed", generation |-> 0, counts |-> ZeroCounts,
     expiry |-> ZeroTime]

Live(brk, cls) == ({brk[k] : k \in Keys} \cup {cls[t].cba : t \in Callers}) \ {0}

Collect(heap, freed, live) ==
    [i \in 1..Len(heap) |-> IF i \in live THEN heap[i] ELSE freed]

\* ----------------------------------------------------------- history

\* What the last step did, when it was the return of a call (done), or of
\* Delete, Clear, Close, or a removal by the expiry goroutine (op, keys,
\* removed), or the store of cache.Get (op "read": the atime stored, the atime
\* it replaced, and the atime the slot had when the call loaded it).
NoRet ==
    [done |-> FALSE, key |-> "", exec |-> "", cb |-> 0, prev |-> 0,
     value |-> "", err |-> "nil", ran |-> FALSE, was |-> 0, n |-> 0,
     state |-> "closed", name |-> "", gate |-> "", within |-> FALSE,
     miss |-> FALSE,
     op |-> "", keys |-> {}, removed |-> {},
     atime |-> 0, prior |-> 0, seen |-> 0]

\* The open timeout of breaker b has elapsed at t (it is, or is about to be
\* made, half-open).
TimeoutElapsed(b, t) ==
    b.state = "half-open" \/ (b.state = "open" /\ Before(b.expiry, t))

\* The keys of ks lose their entries: their histories start over.
Evict(ks) ==
    /\ made' = [k \in Keys |-> IF k \in ks THEN 0 ELSE made[k]]
    /\ lastCb' = [k \in Keys |-> IF k \in ks THEN 0 ELSE lastCb[k]]
    /\ run' = [k \in Keys |->
                 IF k \in ks /\ breakers[k] # 0 THEN [n |-> 0, ok |-> FALSE]
                 ELSE run[k]]
    /\ idle' = idle \ {breakers[k] : k \in ks}

\* The run of key after a call on breaker b whose closure argument is arg.
RunAfter(key, arg, b) ==
    IF run[key].ok /\ ExecClosure(arg).err # "nil" /\ ~TimeoutElapsed(b, now)
    THEN [n |-> run[key].n + 1, ok |-> TRUE]
    ELSE [n |-> 0, ok |-> FALSE]

\* ------------------------------------------------ CircuitBreakerMux

\* A mux that looks the breaker up under the closure's argument.
BreakerKeyExec(key, exec) == exec

\* The key the breaker is looked up and stored under, and named after.
BreakerKey(key, exec) == key

\* A GetKeyExec that hands the key to c.efunc, as Get does.
ClosureArgKey(key, exec) == key

\* The argument handed to c.efunc.
ClosureArg(key, exec) == exec

\* t: on a hit, the instant cache.Get was entered, then the instant it read
\* from the clock; gate: the state beforeRequest found the breaker in when it
\* let the call pass; miss: Load found no entry; seen: the atime of the slot
\* Load found, until cache.Get has stored its own.
NoCaller == [pc |-> "idle", key |-> "", exec |-> "", cba |-> 0, cb |-> 0,
             t |-> 0, generation |-> 0, gate |-> "", miss |-> FALSE,
             seen |-> 0]

\* Caller t returns (value, err) from Execute on breaker b, which becomes nb;
\* ran: the closure was invoked; rep: the observer afterwards.
Return(t, value, err, ran, b, nb, rep) ==
    LET c == callers[t]
        r == RunAfter(c.key, c.exec, b)
        cls == [callers EXCEPT ![t] = NoCaller]
        live == Live(breakers, cls)
        seen == currentState(b, now) IN
    /\ callers' = cls
    /\ cbs' = Collect([cbs EXCEPT ![c.cb] = nb], FreedCb, live)
    /\ caches' = Collect(caches, FreedCache, live)
    /\ reported' = rep
    /\ run' = [run EXCEPT ![c.key] = r]
    /\ lastCb' = [lastCb EXCEPT ![c.key] = c.cb]
    /\ ret' = [NoRet EXCEPT
                  !.done = TRUE, !.key = c.key, !.exec = c.exec, !.cb = c.cb,
                  !.prev = lastCb[c.key], !.value = value, !.err = err,
                  !.ran = ran, !.was = run[c.key].n, !.n = r.n,
                  !.state = rep[c.key], !.name = b.name, !.miss = c.miss,
                  !.gate = IF ran THEN c.gate ELSE seen.state,
                  !.within = ran \/ seen.counts.Requests < maxRequests(st)]

\* cba, ok := c.breakers.Load(key)
Load(t, key, exec) ==
    /\ callers[t].pc = "idle"
    /\ calls' = calls + 1
    /\ LET k == BreakerKey(key, exec) IN
       /\ callers' = [callers EXCEPT ![t] =
                        [NoCaller EXCEPT
                           !.pc = IF breakers[k] # 0 THEN "hit" ELSE "miss",
                           !.key = key, !.exec = exec, !.cba = breakers[k],
                           !.t = IF breakers[k] # 0 THEN now ELSE 0,
                           !.miss = (breakers[k] = 0),
                           !.seen = IF breakers[k] # 0
                                    THEN caches[breakers[k]].atime ELSE 0]]
       /\ idle' = idle \ {breakers[k]}
    /\ ret' = NoRet
    /\ UNCHANGED <<st, now, breakers, caches, cbs, sched, killChan, closer,
                   reported, made, lastCb, run>>

\* Get(key): the closure is c.efunc(key).
Get(t, key) == Load(t, key, key)

\* GetKeyExec(key, exec): the closure is c.efunc(exec).
GetKeyExec(t, key, exec) == Load(t, key, exec)

\* cache.Get, first half: time.Now().UnixMicro()
CacheGetNow(t) ==
    /\ callers[t].pc = "hit"
    /\ callers' = [callers EXCEPT ![t] = [@ EXCEPT !.pc = "hit_store", !.t = now]]
    /\ ret' = NoRet
    /\ UNCHANGED <<st, now, breakers, caches, cbs, sched, killChan, closer,
                   reported, calls, made, lastCb, run, idle>>

\* A cache.Get that stamps mtime as well as atime.
CacheGetStoreBoth(t) ==
    LET c == callers[t] IN
    /\ c.pc = "hit_store"
    /\ caches' = [caches EXCEPT ![c.cba] = [@ EXCEPT !.atime = c.t, !.mtime = c.t]]
    /\ callers' = [callers EXCEPT ![t] =
                     [@ EXCEPT !.pc = "before", !.cb = caches[c.cba].item,
                               !.t = 0, !.seen = 0]]
    /\ idle' = idle \ {c.cba}
    /\ ret' = [NoRet EXCEPT !.op = "read", !.keys = {c.key},
                            !.atime = caches'[c.cba].atime,
                            !.prior = caches[c.cba].atime, !.seen = c.seen]
    /\ UNCHANGED <<st, now, breakers, cbs, sched, killChan, closer,
                   reported, calls, made, lastCb, run>>

\* A cache.Get that stamps atime with the slot's mtime instead of the clock.
CacheGetStoreStale(t) ==
    LET c == callers[t] IN
    /\ c.pc = "hit_store"
    /\ caches' = [caches EXCEPT ![c.cba] = [@ EXCEPT !.atime = caches[c.cba].mtime]]
    /\ callers' = [callers EXCEPT ![t] =
                     [@ EXCEPT !.pc = "before", !.cb = caches[c.cba].item,
                               !.t = 0, !.seen = 0]]
    /\ idle' = idle \ {c.cba}
    /\ ret' = [NoRet EXCEPT !.op = "read", !.keys = {c.key},
                            !.atime = caches'[c.cba].atime,
                            !.prior = caches[c.cba].atime, !.seen = c.seen]
    /\ UNCHANGED <<st, now, breakers, cbs, sched, killChan, closer,
                   reported, calls, made, lastCb, run>>

\* A cache.Get whose caller stores the slot it read back under its key.
CacheGetStoreRestore(t) ==
    LET c == callers[t] IN
    /\ c.pc = "hit_store"
    /\ caches' = [caches EXCEPT ![c.cba] = [@ EXCEPT !.atime = c.t]]
    /\ breakers' = [breakers EXCEPT ![BreakerKey(c.key, c.exec)] = c.cba]
    /\ callers' = [callers EXCEPT ![t] =
                     [@ EXCEPT !.pc = "before", !.cb = caches[c.cba].item,
                               !.t = 0, !.seen = 0]]
    /\ idle' = idle \ {c.cba}
    /\ ret' = [NoRet EXCEPT !.op = "read", !.keys = {c.key},
                            !.atime = caches'[c.cba].atime,
                            !.prior = caches[c.cba].atime, !.seen = c.seen]
    /\ UNCHANGED <<st, now, cbs, sched, killChan, closer,
                   reported, calls, made, lastCb, run>>

\* cache.Get, second half: c.atime.Store(..); return c.item
CacheGetStore(t) ==
    LET c == callers[t] IN
    /\ c.pc = "hit_store"
    /\ caches' = [caches EXCEPT ![c.cba] = [@ EXCEPT !.atime = c.t]]
    /\ callers' = [callers EXCEPT ![t] =
                     [@ EXCEPT !.pc = "before", !.cb = caches[c.cba].item,
                               !.t = 0, !.seen = 0]]
    /\ idle' = idle \ {c.cba}
    /\ ret' = [NoRet EXCEPT !.op = "read", !.keys = {c.key},
                            !.atime = caches'[c.cba].atime,
                            !.prior = caches[c.cba].atime, !.seen = c.seen]
    /\ UNCHANGED <<st, now, breakers, cbs, sched, killChan, closer,
                   reported, calls, made, lastCb, run>>

\* var ust = c.st; ust.Name = key: a copy of the template, named after the key.
Clone(s, key) == [s EXCEPT !.Name = key]

\* A miss path that names the template itself instead of a copy of it.
MissNewSharedSettings(t) ==
    LET c == callers[t]
        ust == Clone(st, BreakerKey(c.key, c.exec)) IN
    /\ c.pc = "miss"
    /\ st' = ust
    /\ cbs' = Append(cbs, NewCircuitBreaker(ust.Name, now))
    /\ caches' = Append(caches, [item |-> 0, atime |-> 0, mtime |-> now])
    /\ callers' = [callers EXCEPT ![t] =
                     [@ EXCEPT !.pc = "miss_atime", !.cb = Len(cbs) + 1,
                               !.cba = Len(caches) + 1]]
    /\ made' = [made EXCEPT ![c.key] = @ + 1]
    /\ ret' = NoRet
    /\ UNCHANGED <<now, breakers, sched, killChan, closer,
                   reported, calls, lastCb, run, idle>>

\* The miss path: var ust = c.st; ust.Name = key;
\* gobreaker.NewCircuitBreaker(ust); var cba cache;
\* cba.New(cb) up to c.mtime.Store(time.Now().UnixMicro()).
MissNew(t) ==
    LET c == callers[t]
        ust == Clone(st, BreakerKey(c.key, c.exec)) IN
    /\ c.pc = "miss"
    /\ cbs' = Append(cbs, NewCircuitBreaker(ust.Name, now))
    /\ caches' = Append(caches, [item |-> 0, atime |-> 0, mtime |-> now])
    /\ callers' = [callers EXCEPT ![t] =
                     [@ EXCEPT !.pc = "miss_atime", !.cb = Len(cbs) + 1,
                               !.cba = Len(caches) + 1]]
    /\ made' = [made EXCEPT ![c.key] = @ + 1]
    /\ ret' = NoRet
    /\ UNCHANGED <<st, now, breakers, sched, killChan, closer,
                   reported, calls, lastCb, run, idle>>

\* A cache.New that stamps atime first and mtime second: the slot ends up
\* with the first reading of the clock as atime and the second as mtime.
MissAtimeSwapped(t) ==
    LET c == callers[t] IN
    /\ c.pc = "miss_atime"
    /\ caches' = [caches EXCEPT ![c.cba] =
                    [item |-> c.cb, atime |-> caches[c.cba].mtime, mtime |-> now]]
    /\ callers' = [callers EXCEPT ![t] = [@ EXCEPT !.pc = "miss_store"]]
    /\ ret' = NoRet
    /\ UNCHANGED <<st, now, breakers, cbs, sched, killChan, closer,
                   reported, calls, made, lastCb, run, idle>>

\* A cache.New that never stamps atime.
MissAtimeUnset(t) ==
    LET c == callers[t] IN
    /\ c.pc = "miss_atime"
    /\ caches' = [caches EXCEPT ![c.cba] = [@ EXCEPT !.item = c.cb]]
    /\ callers' = [callers EXCEPT ![t] = [@ EXCEPT !.pc = "miss_store"]]
    /\ ret' = NoRet
    /\ UNCHANGED <<st, now, breakers, cbs, sched, killChan, closer,
                   reported, calls, made, lastCb, run, idle>>

\* cache.New, the rest: c.atime.Store(time.Now().UnixMicro()); c.item = item
MissAtime(t) ==
    LET c == callers[t] IN
    /\ c.pc = "miss_atime"
    /\ caches' = [caches EXCEPT ![c.cba] = [@ EXCEPT !.atime = now, !.item = c.cb]]
    /\ callers' = [callers EXCEPT ![t] = [@ EXCEPT !.pc = "miss_store"]]
    /\ ret' = NoRet
    /\ UNCHANGED <<st, now, breakers, cbs, sched, killChan, closer,
                   reported, calls, made, lastCb, run, idle>>

\* A miss path that stores only if the key still has no entry (LoadOrStore).
MissStoreIfAbsent(t) ==
    LET c == callers[t]
        k == BreakerKey(c.key, c.exec)
        brk == IF breakers[k] = 0 THEN [breakers EXCEPT ![k] = c.cba] ELSE breakers IN
    /\ c.pc = "miss_store"
    /\ breakers' = brk
    /\ callers' = [callers EXCEPT ![t] = [@ EXCEPT !.pc = "before"]]
    /\ ret' = NoRet
    /\ UNCHANGED <<st, now, caches, cbs, sched, killChan, closer,
                   reported, calls, made, lastCb, run, idle>>

\* A miss path that forgets c.breakers.Store.
MissStoreDropped(t) ==
    /\ callers[t].pc = "miss_store"
    /\ callers' = [callers EXCEPT ![t] = [@ EXCEPT !.pc = "before"]]
    /\ ret' = NoRet
    /\ UNCHANGED <<st, now, breakers, caches, cbs, sched, killChan, closer,
                   reported, calls, made, lastCb, run, idle>>

\* c.breakers.Store(key, &cba)
MissStore(t) ==
    LET c == callers[t]
        k == BreakerKey(c.key, c.exec)
        brk == [breakers EXCEPT ![k] = c.cba]
        live == Live(brk, callers) IN
    /\ c.pc = "miss_store"
    /\ breakers' = brk
    /\ caches' = Collect(caches, FreedCache, live)
    /\ cbs' = Collect(cbs, FreedCb, live)
    /\ callers' = [callers EXCEPT ![t] = [@ EXCEPT !.pc = "before"]]
    /\ idle' = idle \ {breakers[k]}
    /\ ret' = NoRet
    /\ UNCHANGED <<st, now, sched, killChan, closer,
                   reported, calls, made, lastCb, run>>

\* cb.Execute, first half: beforeRequest; an open breaker returns at once.
ExecuteBefore(t) ==
    LET c == callers[t]
        b == cbs[c.cb]
        r == beforeRequest(b, now)
        rep == Notify(reported, b, r.cb) IN
    /\ c.pc = "before"
    /\ IF r.err # "nil"
       THEN Return(t, "", r.err, FALSE, b, r.cb, rep)
       ELSE /\ callers' = [callers EXCEPT ![t] =
                             [@ EXCEPT !.pc = "exec", !.generation = r.generation,
                                       !.gate = r.cb.state]]
            /\ cbs' = [cbs EXCEPT ![c.cb] = r.cb]
            /\ reported' = rep
            /\ run' = [run EXCEPT ![c.key] =
                         IF TimeoutElapsed(b, now) THEN [n |-> 0, ok |-> FALSE] ELSE @]
            /\ ret' = NoRet
            /\ UNCHANGED <<caches, lastCb>>
    /\ UNCHANGED <<st, now, breakers, sched, killChan, closer, calls, made, idle>>

\* A Get that wraps the closure's error in one of its own.
ExecuteAfterWrapped(t) ==
    LET c == callers[t]
        b == cbs[c.cb]
        res == ExecClosure(ClosureArg(c.key, c.exec))
        a == afterRequest(b, c.generation, IsSuccessful(res.err), now)
        rep == Notify(reported, b, a) IN
    /\ c.pc = "exec"
    /\ Return(t, res.value, IF res.err = "nil" THEN "nil" ELSE "mux: Noo", TRUE, b, a, rep)
    /\ UNCHANGED <<st, now, breakers, sched, killChan, closer, calls, made, idle>>

\* An Execute that returns the zero value whenever the closure fails.
ExecuteAfterZeroOnError(t) ==
    LET c == callers[t]
        b == cbs[c.cb]
        res == ExecClosure(ClosureArg(c.key, c.exec))
        a == afterRequest(b, c.generation, IsSuccessful(res.err), now)
        rep == Notify(reported, b, a) IN
    /\ c.pc = "exec"
    /\ Return(t, IF res.err = "nil" THEN res.value ELSE "", res.err, TRUE, b, a, rep)
    /\ UNCHANGED <<st, now, breakers, sched, killChan, closer, calls, made, idle>>

\* cb.Execute, second half: req() runs, afterRequest, return its result.
ExecuteAfter(t) ==
    LET c == callers[t]
        b == cbs[c.cb]
        res == ExecClosure(ClosureArg(c.key, c.exec))
        a == afterRequest(b, c.generation, IsSuccessful(res.err), now)
        rep == Notify(reported, b, a) IN
    /\ c.pc = "exec"
    /\ Return(t, res.value, res.err, TRUE, b, a, rep)
    /\ UNCHANGED <<st, now, breakers, sched, killChan, closer, calls, made, idle>>

\* A removal that waits until no call is inside its closure.
RemoveWaits(ks, op) ==
    LET brk == [k \in Keys |-> IF k \in ks THEN 0 ELSE breakers[k]]
        live == Live(brk, callers) IN
    /\ \A t \in Callers : callers[t].pc # "exec"
    /\ breakers' = brk
    /\ caches' = Collect(caches, FreedCache, live)
    /\ cbs' = Collect(cbs, FreedCb, live)
    /\ Evict(ks)
    /\ ret' = [NoRet EXCEPT !.op = op, !.keys = ks,
                            !.removed = {k \in ks : breakers[k] # 0}]

\* The map loses the entries of the keys ks, in operation op.
Remove(ks, op) ==
    LET brk == [k \in Keys |-> IF k \in ks THEN 0 ELSE breakers[k]]
        live == Live(brk, callers) IN
    /\ breakers' = brk
    /\ caches' = Collect(caches, FreedCache, live)
    /\ cbs' = Collect(cbs, FreedCb, live)
    /\ Evict(ks)
    /\ ret' = [NoRet EXCEPT !.op = op, !.keys = ks,
                            !.removed = {k \in ks : breakers[k] # 0}]

\* A Delete that drops every entry.
DeleteAll(key) ==
    /\ Remove(Keys, "Delete")
    /\ UNCHANGED <<st, now, callers, sched, killChan, closer, reported, calls>>

\* Delete(key): c.breakers.Delete(key)
Delete(key) ==
    /\ Remove({key}, "Delete")
    /\ UNCHANGED <<st, now, callers, sched, killChan, closer, reported, calls>>

\* A Clear that drops the entry of "yes" only.
ClearOne ==
    /\ Remove({"yes"}, "Clear")
    /\ UNCHANGED <<st, now, callers, sched, killChan, closer, reported, calls>>

\* Clear(): c.breakers.Clear()
Clear ==
    /\ Remove(Keys, "Clear")
    /\ UNCHANGED <<st, now, callers, sched, killChan, closer, reported, calls>>

\* ------------------------------------------------- expiry goroutine

\* A NewMux that starts the goroutine for ExpireCheck = 0 as well.
StartsSchedulerAlways(s) == s.ExpireCheck >= 0

\* NewMux: if st.ExpireCheck > 0, a goroutine is started.
StartsScheduler(s) == s.ExpireCheck > 0

\* A NewMux that traverses, instead of clearing, when ExpireAfter is 0.
ClearsEachIntervalNegative(s) == s.ExpireAfter < 0

\* NewMux: if st.ExpireAfter <= 0, the goroutine clears the map each interval.
ClearsEachInterval(s) == s.ExpireAfter <= 0

\* time.Now().Add(st.ExpireAfter * -1), as UnixMicro.
Deadline(t) == t - st.ExpireAfter

\* An expire that spares slots up to one clock unit before the deadline.
ExpiredLate(atime, deadint) == atime < deadint - 1

\* expire: if atime < deadint, the key is deleted.
Expired(atime, deadint) == atime < deadint

\* swept: the idle slots this pass of expire has deleted so far.
NoSched ==
    [pc |-> "none", timerAt |-> 0, deadint |-> 0, toVisit |-> {}, key |-> "",
     swept |-> {}]

\* The goroutine entering its select at time t: time.After(st.ExpireCheck).
Select(t) == [NoSched EXCEPT !.pc = "waiting", !.timerAt = t + st.ExpireCheck]

\* A select without the killChan case: only the timer wakes the goroutine.
SchedKillMissing ==
    /\ sched.pc = "waiting"
    /\ killChan = "closed"
    /\ now >= sched.timerAt
    /\ sched' = [sched EXCEPT !.pc = "fired"]
    /\ ret' = NoRet
    /\ UNCHANGED <<st, now, breakers, caches, cbs, callers, killChan, closer,
                   reported, calls, made, lastCb, run, idle>>

\* select: case <-c.killChan: return
SchedKill ==
    /\ sched.pc = "waiting"
    /\ killChan = "closed"
    /\ sched' = [NoSched EXCEPT !.pc = "stopped"]
    /\ ret' = NoRet
    /\ UNCHANGED <<st, now, breakers, caches, cbs, callers, killChan, closer,
                   reported, calls, made, lastCb, run, idle>>

\* select: case <-time.After(st.ExpireCheck): the timer's send wins the select.
SchedTimer ==
    /\ sched.pc = "waiting"
    /\ killChan = "open"
    /\ now >= sched.timerAt
    /\ sched' = [NoSched EXCEPT !.pc = "fired"]
    /\ ret' = NoRet
    /\ UNCHANGED <<st, now, breakers, caches, cbs, callers, killChan, closer,
                   reported, calls, made, lastCb, run, idle>>

\* The clear-each-interval goroutine: c.Clear(), then the select again.
ClearTick ==
    /\ sched.pc = "fired"
    /\ ClearsEachInterval(st)
    /\ Remove(Keys, "tick")
    /\ sched' = Select(now)
    /\ UNCHANGED <<st, now, callers, killChan, closer, reported, calls>>

\* Slots a caller has loaded and is about to stamp.
Held == {callers[t].cba : t \in {u \in Callers : callers[u].pc \in {"hit", "hit_store"}}}

\* The traversing goroutine: c.expire(time.Now().Add(st.ExpireAfter * -1))
\* computes deadint and starts c.breakers.Range(f).
SweepStart ==
    /\ sched.pc = "fired"
    /\ ~ClearsEachInterval(st)
    /\ LET present == {k \in Keys : breakers[k] # 0} IN
       /\ sched' = [NoSched EXCEPT !.pc = "sweeping", !.deadint = Deadline(now),
                                   !.toVisit = present]
       /\ idle' = {breakers[k] : k \in {j \in present :
                      caches[breakers[j]].atime < now - st.ExpireAfter}} \ Held
    /\ ret' = NoRet
    /\ UNCHANGED <<st, now, breakers, caches, cbs, callers, killChan, closer,
                   reported, calls, made, lastCb, run>>

\* Range calls f(key, value): atime := value.atime.Load(); atime < deadint?
SweepVisit(key) ==
    /\ sched.pc = "sweeping"
    /\ key \in sched.toVisit
    /\ sched' = IF breakers[key] # 0
                   /\ Expired(caches[breakers[key]].atime, sched.deadint)
                THEN [sched EXCEPT !.toVisit = @ \ {key}, !.pc = "delete",
                                   !.key = key]
                ELSE [sched EXCEPT !.toVisit = @ \ {key}]
    /\ ret' = NoRet
    /\ UNCHANGED <<st, now, breakers, caches, cbs, callers, killChan, closer,
                   reported, calls, made, lastCb, run, idle>>

\* f: c.breakers.Delete(key)
SweepDelete ==
    /\ sched.pc = "delete"
    /\ Remove({sched.key}, "expire")
    /\ sched' = [sched EXCEPT !.pc = "sweeping", !.key = "",
                              !.swept = @ \cup ({breakers[sched.key]} \cap idle)]
    /\ UNCHANGED <<st, now, callers, killChan, closer, reported, calls>>

\* Range returns, expire returns, and the goroutine is at its select again.
SweepEnd ==
    /\ sched.pc = "sweeping"
    /\ sched.toVisit = {}
    /\ sched' = Select(now)
    /\ idle' = {}
    /\ ret' = NoRet
    /\ UNCHANGED <<st, now, breakers, caches, cbs, callers, killChan, closer,
                   reported, calls, made, lastCb, run>>

\* ------------------------------------------------------------ Close

\* Close, first statement: close(c.killChan); closing a closed channel panics.
CloseSignal ==
    /\ closer \in {"idle", "returned"}
    /\ IF killChan = "closed"
       THEN closer' = "panicked" /\ UNCHANGED killChan
       ELSE closer' = "signalled" /\ killChan' = "closed"
    /\ ret' = NoRet
    /\ UNCHANGED <<st, now, breakers, caches, cbs, callers, sched,
                   reported, calls, made, lastCb, run, idle>>

\* A Close that returns without clearing the map.
CloseClearSkipped ==
    /\ closer = "signalled"
    /\ closer' = "returned"
    /\ ret' = [NoRet EXCEPT !.op = "Close", !.keys = Keys]
    /\ UNCHANGED <<st, now, breakers, caches, cbs, callers, sched, killChan,
                   reported, calls, made, lastCb, run, idle>>

\* Close, second statement: c.breakers.Clear(), and Close returns.
CloseClear ==
    /\ closer = "signalled"
    /\ Remove(Keys, "Close")
    /\ closer' = "returned"
    /\ UNCHANGED <<st, now, callers, sched, killChan, reported, calls>>

\* ------------------------------------------------------------ clock

Tick ==
    /\ now < MaxTime
    /\ now' = now + 1
    /\ ret' = NoRet
    /\ UNCHANGED <<st, breakers, caches, cbs, callers, sched, killChan, closer,
                   reported, calls, made, lastCb, run, idle>>

\* ----------------------------------------------------- specifications

SettingsSet ==
    [Name : {"mux"},
     Timeout : {2}, Interval : {0}, MaxRequests : {0}, ReadyToTrip : {"nil"},
     ExpireAfter : {0, 1}, ExpireCheck : {0, 1}]

\* NewMux(st) has returned.
NewMux(s) ==
    /\ st = s
    /\ now = 0
    /\ breakers = [k \in Keys |-> 0]
    /\ caches = <<>>
    /\ cbs = <<>>
    /\ callers = [t \in Callers |-> NoCaller]
    /\ sched = IF StartsScheduler(s)
               THEN [NoSched EXCEPT !.pc = "waiting", !.timerAt = s.ExpireCheck]
               ELSE NoSched
    /\ killChan = "open"
    /\ closer = "idle"
    /\ reported = [k \in Keys |-> "closed"]
    /\ calls = 0
    /\ ret = NoRet
    /\ made = [k \in Keys |-> 0]
    /\ lastCb = [k \in Keys |-> 0]
    /\ run = [k \in Keys |-> [n |-> 0, ok |-> TRUE]]
    /\ idle = {}

Init == \E s \in SettingsSet : NewMux(s)

CallerStep(t) ==
    \/ CacheGetNow(t)
    \/ CacheGetStore(t)
    \/ MissNew(t)
    \/ MissAtime(t)
    \/ MissStore(t)
    \/ ExecuteBefore(t)
    \/ ExecuteAfter(t)

\* A second Close panics on the closed channel and the program dies.
Alive == closer # "panicked"

\* Everything at once: one goroutine calling Get, the explicit Delete and Clear,
\* the expiry goroutine of every mode, Close, and the clock.
Next ==
    \/ \E k \in Keys : Alive /\ calls < MaxCalls /\ Get(1, k)
    \/ Alive /\ CallerStep(1)
    \/ \E k \in Keys : Alive /\ Delete(k)
    \/ Alive /\ Clear
    \/ Alive /\ SchedKill
    \/ Alive /\ SchedTimer
    \/ Alive /\ ClearTick
    \/ Alive /\ SweepStart
    \/ \E k \in Keys : Alive /\ SweepVisit(k)
    \/ Alive /\ SweepDelete
    \/ Alive /\ SweepEnd
    \/ Alive /\ CloseSignal
    \/ Alive /\ CloseClear
    \/ Alive /\ Tick

Spec == Init /\ [][Next]_vars

\* One client goroutine that calls Get, GetKeyExec, Delete and Clear one after
\* the other within one unit of the clock, on a mux without expiry.
AllIdle == \A t \in Callers : callers[t].pc = "idle"

InitSeq ==
    \E s \in SettingsSet : s.ExpireCheck = 0 /\ s.ExpireAfter = 0 /\ NewMux(s)

NextSeq ==
    \/ \E k \in Keys : calls < SeqCalls /\ Get(1, k)
    \/ \E k \in Keys, e \in Execs : calls < SeqCalls /\ GetKeyExec(1, k, e)
    \/ CallerStep(1)
    \/ \E k \in Keys : AllIdle /\ Delete(k)
    \/ AllIdle /\ Clear

SpecSeq == InitSeq /\ [][NextSeq]_vars

\* A mux with expiry (ExpireCheck > 0, either mode) that is never closed: one
\* goroutine calling Get, another calling Delete, the expiry goroutine, the clock.
InitExpiry == \E s \in SettingsSet : s.ExpireCheck > 0 /\ NewMux(s)

NextExpiry ==
    \/ \E k \in Keys : calls < ExpiryCalls /\ Get(1, k)
    \/ CallerStep(1)
    \/ \E k \in Keys : Delete(k)
    \/ SchedTimer
    \/ ClearTick
    \/ SweepStart
    \/ \E k \in Keys : SweepVisit(k)
    \/ SweepDelete
    \/ SweepEnd
    \/ Tick

SpecExpiry == InitExpiry /\ [][NextExpiry]_vars
\* The steps of the expiry goroutine.
SchedStep ==
    \/ SchedKill
    \/ SchedTimer
    \/ ClearTick
    \/ SweepStart
    \/ \E k \in Keys : SweepVisit(k)
    \/ SweepDelete
    \/ SweepEnd

\* A mux with expiry that is closed at most once: one goroutine calling
\* Get("no"), one calling Close, the expiry goroutine, the clock.  The Go scheduler runs
\* a goroutine that can take a step: the expiry goroutine is weakly fair.
InitClose == \E s \in SettingsSet : s.ExpireCheck > 0 /\ NewMux(s)

NextClose ==
    \/ calls < CloseCalls /\ Get(1, "no")
    \/ CallerStep(1)
    \/ SchedStep
    \/ closer = "idle" /\ CloseSignal
    \/ CloseClear
    \/ Tick

SpecClose == InitClose /\ [][NextClose]_vars /\ WF_vars(SchedStep)

\* Two goroutines calling Get and GetKeyExec on the one key "no" of a mux
\* without expiry whose breakers trip on the first failure and stay open for
\* one unit of the clock.
RaceSettings ==
    [Name : {"mux"}, Timeout : {1}, Interval : {0}, MaxRequests : {0},
     ReadyToTrip : {"TripOnFirstFailure"}, ExpireAfter : {0}, ExpireCheck : {0}]

InitRace == \E s \in RaceSettings : NewMux(s)

NextRace ==
    \/ \E t \in Callers : calls < RaceCalls /\ Get(t, "no")
    \/ \E t \in Callers, e \in Execs : calls < RaceCalls /\ GetKeyExec(t, "no", e)
    \/ \E t \in Callers : CallerStep(t)
    \/ Tick

SpecRace == InitRace /\ [][NextRace]_vars

\* The life of the slots of one key: one goroutine calling Get("no") and
\* GetKeyExec("no", "no"), Delete, Clear, the traversing expiry goroutine, one
\* Close, the clock.
InitSlot == \E s \in SettingsSet : s.ExpireCheck > 0 /\ s.ExpireAfter > 0 /\ NewMux(s)

NextSlot ==
    \/ calls < SlotCalls /\ Get(1, "no")
    \/ calls < SlotCalls /\ GetKeyExec(1, "no", "no")
    \/ CallerStep(1)
    \/ Delete("no")
    \/ Clear
    \/ SchedKill
    \/ SchedTimer
    \/ SweepStart
    \/ SweepVisit("no")
    \/ SweepDelete
    \/ SweepEnd
    \/ closer = "idle" /\ CloseSignal
    \/ CloseClear
    \/ Tick

SpecSlot == InitSlot /\ [][NextSlot]_vars

\* Eviction of an open breaker: one goroutine calling Get("no") on a mux whose
\* breakers trip on the first failure, with Delete, Clear, the expiry
\* goroutine of either mode, one Close, and the clock.
EvictSettings ==
    [Name : {"mux"}, Timeout : {2}, Interval : {0}, MaxRequests : {0},
     ReadyToTrip : {"TripOnFirstFailure"}, ExpireAfter : {0, 1}, ExpireCheck : {1}]

InitEvict == \E s \in EvictSettings : NewMux(s)

NextEvict ==
    \/ calls < EvictCalls /\ Get(1, "no")
    \/ CallerStep(1)
    \/ Delete("no")
    \/ Clear
    \/ SchedKill
    \/ SchedTimer
    \/ ClearTick
    \/ SweepStart
    \/ SweepVisit("no")
    \/ SweepDelete
    \/ SweepEnd
    \/ closer = "idle" /\ CloseSignal
    \/ CloseClear
    \/ Tick

SpecEvict == InitEvict /\ [][NextEvict]_vars

\* Slots coming and going under concurrent calls: two goroutines calling
\* Get("yes") and GetKeyExec("no", "yes"), with Delete and Clear at any
\* moment, on a mux without expiry, within one unit of the clock.
InitReuse ==
    \E s \in SettingsSet : s.ExpireCheck = 0 /\ s.ExpireAfter = 0 /\ NewMux(s)

NextReuse ==
    \/ \E t \in Callers : calls < ReuseCalls /\ Get(t, "yes")
    \/ \E t \in Callers : calls < ReuseCalls /\ GetKeyExec(t, "no", "yes")
    \/ \E t \in Callers : CallerStep(t)
    \/ \E k \in Keys : Delete(k)
    \/ Clear

SpecReuse == InitReuse /\ [][NextReuse]_vars

\* ----------------------------------------------------------- claims

\* The breaker currently stored for key k (k has an entry).
BreakerOf(k) == cbs[caches[breakers[k]].item]

\* C1: sequential calls on one key, with no Delete, Clear or eviction in
\* between, all use the same breaker: at most one breaker is constructed for
\* the key, every call after the first uses the breaker the previous call
\* used, and the failures of the calls accumulate in that breaker's Counts.
C1_SameBreaker ==
    /\ \A k \in Keys : made[k] <= 1
    /\ ret.done /\ ret.prev # 0 => ret.cb = ret.prev
    /\ \A k \in Keys :
         run[k].ok /\ run[k].n \in 1..DefaultTripThreshold /\ breakers[k] # 0
         /\ callers[1].pc = "idle"
            => BreakerOf(k).counts.ConsecutiveFailures = run[k].n

\* The second failing call on a key has returned, from the breaker of the first.
C1_Witness ==
    /\ ret.done /\ ret.prev # 0 /\ ret.cb = ret.prev
    /\ ret.n = 2 /\ made[ret.key] = 1
    /\ BreakerOf(ret.key).counts.ConsecutiveFailures = 2

\* The key of the call goroutine t is in, before or after the step.
StepKey(t) == IF callers[t].pc = "idle" THEN callers'[t].key ELSE callers[t].key

\* C2: a step of a Get/GetKeyExec call on key K1 leaves the map entry, the
\* slot and the breaker (state and Counts) of every other key K2 unchanged,
\* and a call is short-circuited only if the breaker of its own key was
\* reported open: calls on K2 run their closure while K1 is open.
C2_KeyIsolation ==
    [][/\ \A t \in Callers : callers'[t] # callers[t] =>
             \A k2 \in Keys \ {StepKey(t)} :
                /\ breakers'[k2] = breakers[k2]
                /\ breakers[k2] # 0 =>
                      /\ caches'[breakers[k2]] = caches[breakers[k2]]
                      /\ cbs'[caches[breakers[k2]].item] = BreakerOf(k2)
       /\ ret'.done /\ ~ret'.ran => reported'[ret'.key] = "open"]_vars

\* A call on one key has run its closure while the other key's breaker is open.
C2_Witness ==
    /\ ret.done /\ ret.ran
    /\ \E k1 \in Keys \ {ret.key} : breakers[k1] # 0 /\ BreakerOf(k1).state = "open"

\* C3: of consecutive failing calls on a fresh key, the 1st to the 5th return
\* the execution error and the 6th and every later one the circuit-open error.
C3_SixthShortCircuited ==
    ret.done /\ ret.n >= 1 =>
        /\ ret.n <= DefaultTripThreshold => ret.err = "Noo" /\ ret.ran
        /\ ret.n > DefaultTripThreshold => ret.err = "ErrOpenState" /\ ~ret.ran

\* C4: every one of consecutive failing calls on a fresh key returns a non-nil
\* error; the state reported for the key is closed after each of the first
\* five and open after the sixth and every later one.
C4_ClosedThenOpen ==
    ret.done /\ ret.n >= 1 =>
        /\ ret.err # "nil"
        /\ ret.n <= DefaultTripThreshold => ret.state = "closed"
        /\ ret.n > DefaultTripThreshold => ret.state = "open"

\* The seventh failing call in a row has returned with the key reported open.
C4_Witness == ret.done /\ ret.n = DefaultTripThreshold + 2 /\ ret.state = "open"

\* C5: GetKeyExec(key, exec) uses the breaker stored under, and named, key and
\* runs the closure on exec; once a run of failing calls has opened the
\* breaker of key, a call on key is short-circuited with the circuit-open
\* error even when its exec would succeed.
C5_KeySelectsExecRuns ==
    ret.done =>
        /\ breakers[ret.key] # 0
        /\ caches[breakers[ret.key]].item = ret.cb
        /\ cbs[ret.cb].name = ret.key
        /\ ret.ran => /\ ret.value = ExecClosure(ret.exec).value
                      /\ ret.err = ExecClosure(ret.exec).err
        /\ ret.was > DefaultTripThreshold =>
              ~ret.ran /\ ret.err = "ErrOpenState" /\ ret.value = ""

\* A call whose exec would succeed was short-circuited on a key that six
\* failing calls had opened.
C5_Witness ==
    /\ ret.done /\ ret.exec = "yes" /\ ret.was > DefaultTripThreshold
    /\ ~ret.ran /\ ret.err = "ErrOpenState"

\* The expire pass has visited every key and is about to return.
SweepDone == sched.pc = "sweeping" /\ sched.toVisit = {}

\* C6: when a pass of expire ends, every slot whose atime was before the
\* pass's start minus ExpireAfter, and that nobody accessed during the pass,
\* is gone from the map.
C6_StaleRemoved ==
    st.ExpireCheck > 0 /\ st.ExpireAfter > 0 /\ SweepDone =>
        \A k \in Keys : breakers[k] = 0 \/ breakers[k] \notin idle

\* A pass ends having deleted a slot that was stale and untouched.
C6_Witness == st.ExpireAfter > 0 /\ SweepDone /\ sched.swept # {}

\* C7: the slot a pass of expire removes has, at the step that removes it, an
\* atime before the pass's deadline.
C7_NeverRemovesFresh ==
    [][sched.pc = "delete" /\ sched'.pc = "sweeping" /\ breakers[sched.key] # 0
          => caches[breakers[sched.key]].atime < sched.deadint]_vars

\* C8: with ExpireCheck > 0 and ExpireAfter <= 0, what the goroutine does
\* when its timer has fired is Clear(): every key is absent afterwards.
C8_TickClears ==
    [][st.ExpireCheck > 0 /\ st.ExpireAfter <= 0
       /\ sched.pc = "fired" /\ sched' # sched
          => \A k \in Keys : breakers'[k] = 0]_vars

\* The timer has fired in clear-each-interval mode on a map holding a slot
\* that was accessed at this very instant.
C8_Witness ==
    /\ st.ExpireCheck > 0 /\ st.ExpireAfter <= 0 /\ sched.pc = "fired"
    /\ \E k \in Keys : breakers[k] # 0 /\ caches[breakers[k]].atime = now

\* C9: with ExpireCheck <= 0 there is no expiry goroutine, whatever
\* ExpireAfter is, and a key loses its entry only in a step of Delete, Clear
\* or Close.
C9_NoSchedulerNoRemoval ==
    [][st.ExpireCheck <= 0 =>
          /\ sched.pc = "none" /\ sched'.pc = "none"
          /\ (\E k \in Keys : breakers[k] # 0 /\ breakers'[k] = 0)
                => (\E k \in Keys : Delete(k)) \/ Clear \/ CloseClear]_vars

\* No goroutine, ExpireAfter > 0, and a slot idle for longer than ExpireAfter
\* is still in the map.
C9_Witness ==
    /\ st.ExpireCheck <= 0 /\ st.ExpireAfter > 0 /\ sched.pc = "none"
    /\ \E k \in Keys :
          breakers[k] # 0 /\ caches[breakers[k]].atime + st.ExpireAfter < now

\* C10: once Close() has returned, no pass of expire and no periodic Clear()
\* starts, and none completes.
C10_NothingAfterClose ==
    [][closer = "returned" =>
          /\ ~(sched.pc = "fired" /\ sched'.pc # "fired")
          /\ ~(sched.pc = "sweeping" /\ sched'.pc = "waiting")]_vars

\* C11: on a mux with an expiry goroutine (ExpireCheck > 0, either mode),
\* once Close() has closed killChan the goroutine eventually returns; as long
\* as killChan is open the goroutine has not returned.
C11_GoroutineTerminates ==
    /\ [](st.ExpireCheck > 0 /\ killChan = "open" => sched.pc \notin {"none", "stopped"})
    /\ (st.ExpireCheck > 0 /\ killChan = "closed") ~> (sched.pc = "stopped")

\* The traversing goroutine of a closed mux has returned.
C11_Witness ==
    st.ExpireCheck > 0 /\ st.ExpireAfter > 0 /\ killChan = "closed" /\ sched.pc = "stopped"

\* C12: a second Close() on the same mux completes without a panic.
C12_SecondCloseCompletes == closer # "panicked"

\* C13: Close() closes killChan before it clears the map, and in the state
\* in which Close() returns the map has no entry.
C13_SignalThenClear ==
    /\ closer = "signalled" => killChan = "closed"
    /\ ret.op = "Close" =>
          /\ closer = "returned" /\ killChan = "closed"
          /\ \A k \in Keys : breakers[k] = 0

\* Close() has just returned, having removed a slot, with no call in flight.
C13_Witness == ret.op = "Close" /\ ret.removed # {} /\ AllIdle

\* C14: a step of Delete(key) leaves key without an entry, whether it had one
\* or not, panics nowhere, and leaves the entry, slot and breaker of every
\* other key as they were; on an absent key it changes nothing of the mux.
C14_DeleteFrame ==
    [][\A k \in Keys : Delete(k) =>
          /\ breakers'[k] = 0
          /\ closer' = closer
          /\ \A k2 \in Keys \ {k} :
                /\ breakers'[k2] = breakers[k2]
                /\ breakers[k2] # 0 =>
                      /\ caches'[breakers[k2]] = caches[breakers[k2]]
                      /\ cbs'[caches[breakers[k2]].item] = BreakerOf(k2)
          /\ breakers[k] = 0 => UNCHANGED <<breakers, caches, cbs, reported>>]_vars

\* Delete has just run on a key without an entry while the other key has one.
C14_Witness ==
    /\ ret.op = "Delete" /\ ret.removed = {}
    /\ \E k2 \in Keys \ ret.keys : breakers[k2] # 0

\* C15: a step of Clear() leaves the map without any entry and panics
\* nowhere; on an empty map it changes nothing of the mux.
C15_ClearEmpties ==
    [][Clear =>
          /\ \A k \in Keys : breakers'[k] = 0
          /\ closer' = closer
          /\ (\A k \in Keys : breakers[k] = 0)
                => UNCHANGED <<breakers, caches, cbs, reported>>]_vars

\* Clear() has just removed the slots of both keys, no call being in flight.
C15_Witness == ret.op = "Clear" /\ ret.removed = Keys /\ AllIdle

\* C16: the closure of a call is invoked exactly when beforeRequest found the
\* breaker closed, or half-open with fewer requests than MaxRequests; when it
\* is invoked the call returns the closure's error, when the breaker is open
\* it is not invoked and the call returns ErrOpenState; the only other error
\* a call returns is ErrTooManyRequests of the half-open breaker.
C16_ClosureIffPermitted ==
    ret.done =>
        /\ ret.ran <=> (ret.gate = "closed" \/ (ret.gate = "half-open" /\ ret.within))
        /\ ret.ran => ret.err = ExecClosure(ret.exec).err
        /\ ret.gate = "open" => ~ret.ran /\ ret.err = "ErrOpenState"
        /\ ~ret.ran => ret.err \in {"ErrOpenState", "ErrTooManyRequests"}

\* A call found the breaker half-open with its one request taken and was
\* refused without running its closure.
C16_Witness ==
    ret.done /\ ret.gate = "half-open" /\ ~ret.within /\ ~ret.ran

\* C17, as claimed: a call that returns a non-nil error returns the zero value.
C17_ZeroValueOnError == ret.done /\ ret.err # "nil" => ret.value = ""

\* C17: a call that was short-circuited returns the zero value with its
\* error; a call whose closure ran returns the closure's value, also when
\* the closure fails; a non-zero value with a nil error comes from the closure.
C17_ValueIsTheClosures ==
    ret.done =>
        /\ ~ret.ran => ret.value = "" /\ ret.err # "nil"
        /\ ret.ran => ret.value = ExecClosure(ret.exec).value

\* A short-circuited call has returned the zero value just after a failing
\* call returned the closure's value.
C17_Witness == ret.done /\ ~ret.ran /\ ret.value = "" /\ ret.err = "ErrOpenState"

\* The only two calls so far both found "no" absent: each has constructed, or
\* is about to construct, a breaker of its own.
BothMissed ==
    /\ calls = 2
    /\ \A t \in Callers : callers[t].pc = "idle" \/ callers[t].miss
    /\ made["no"] = 2 \/ \E t \in Callers : callers[t].pc = "miss"

\* C18: when two first requests on the absent key "no" race, each runs its
\* closure on a breaker named "no" and returns the closure's result; every
\* Store overwrites the entry (the last one wins), so when both have
\* returned the map holds for "no" one of the two slots they made.
C18_LastStoreWins ==
    [][/\ ret'.done /\ ret'.miss /\ BothMissed' =>
             /\ ret'.ran /\ ret'.name = ret'.key
             /\ ret'.err = ExecClosure(ret'.exec).err
       /\ (\A t \in Callers : callers'[t].pc = "idle") /\ made'["no"] = 2 =>
             /\ breakers'["no"] \in 1..2
             /\ cbs'[caches'[breakers'["no"]].item].name = "no"
       /\ \A t \in Callers :
             callers[t].pc = "miss_store" /\ callers'[t].pc = "before"
                => breakers'[callers[t].key] = callers[t].cba]_vars

\* Both racing calls have returned and the map holds the slot constructed
\* first, which therefore was stored last.
C18_Witness ==
    /\ AllIdle /\ calls = 2 /\ made["no"] = 2
    /\ breakers["no"] = 1 /\ BreakerOf("no").name = "no"

\* C19: no step changes the mtime of a slot that exists before the step and
\* is still referenced after it: mtime is written by cache.New only.
C19_MtimeWrittenOnce ==
    [][\A i \in 1..Len(caches) :
          i \in Live(breakers', callers') => caches'[i].mtime = caches[i].mtime]_vars

\* A slot in the map has just been read at an instant after its creation and
\* still carries the earlier mtime.
C19_Witness ==
    /\ callers[1].pc = "before" /\ ~callers[1].miss
    /\ breakers["no"] = callers[1].cba
    /\ caches[callers[1].cba].mtime < caches[callers[1].cba].atime
    /\ caches[callers[1].cba].atime = now

\* C20: for the reads of one goroutine, one after the other: the instant a
\* read takes from the clock is not before the read began, the read stores
\* exactly that instant, which is not after the instant the read ends, and
\* the atime it stores is not before the atime it replaces.
C20_AtimeMonotonic ==
    [][\A t \in Callers :
          /\ callers[t].pc = "hit" /\ callers'[t].pc = "hit_store"
                => callers'[t].t >= callers[t].t
          /\ callers[t].pc = "hit_store" /\ callers'[t].pc = "before"
                => /\ caches'[callers[t].cba].atime = callers[t].t
                   /\ callers[t].t <= now
                   /\ caches'[callers[t].cba].atime >= caches[callers[t].cba].atime]_vars

\* The third call on the key, its second read, has stamped the slot with a
\* later instant than the first read did.
C20_Witness ==
    /\ calls = 3 /\ callers[1].pc = "before" /\ ~callers[1].miss
    /\ made["no"] = 1 /\ lastCb["no"] = callers[1].cb
    /\ caches[callers[1].cba].atime = now /\ caches[callers[1].cba].mtime = 0
    /\ now > 1

\* C21, as claimed: no store of cache.Get lowers the atime of a slot, also
\* when several goroutines call Get/GetKeyExec on the same key.
C21_AtimeNeverDecreases == ret.op = "read" => ret.atime >= ret.prior

\* C21: under concurrent calls on one key every store of cache.Get writes an
\* instant its caller read from the clock during the call: not before the
\* atime the slot had when the call loaded it, and not after the store; no
\* slot carries an atime of the future.  The atime goes back only by
\* replacing what another call stored in the meantime.
C21_ReadStoresOwnInstant ==
    /\ \A i \in 1..Len(caches) : caches[i].atime <= now
    /\ \A t \in Callers :
          callers[t].pc = "hit_store" =>
              callers[t].seen <= callers[t].t /\ callers[t].t <= now
    /\ ret.op = "read" =>
          /\ ret.seen <= ret.atime /\ ret.atime <= now
          /\ ret.atime < ret.prior => ret.prior > ret.seen

\* A read has just replaced the later atime another, overlapping read stored
\* by its own earlier instant.
C21_Witness == ret.op = "read" /\ ret.atime < ret.prior /\ ret.atime >= ret.seen

\* C22, as claimed: the slot the miss path has made carries one instant as
\* its mtime and its atime.
C22_SameInstant ==
    \A t \in Callers :
        callers[t].pc = "miss_store" =>
            caches[callers[t].cba].mtime = caches[callers[t].cba].atime

\* C22: the slot the miss path has made, when cache.New has returned and the
\* slot is about to be stored, carries an mtime read from the clock first and
\* an atime read second (mtime <= atime <= now), is in the map under no key
\* yet, and holds the breaker this call constructed: named after the key,
\* closed, with zero Counts.
C22_CreatedInOrder ==
    \A t \in Callers :
        callers[t].pc = "miss_store" =>
            LET slot == caches[callers[t].cba] IN
            /\ slot.mtime <= slot.atime /\ slot.atime <= now
            /\ \A k \in Keys : breakers[k] # callers[t].cba
            /\ slot.item = callers[t].cb
            /\ cbs[slot.item].name = callers[t].key
            /\ cbs[slot.item].state = "closed"
            /\ cbs[slot.item].counts = ZeroCounts

\* cache.New has returned with the clock having advanced between its two
\* reads: the new slot's atime is after its mtime.
C22_Witness ==
    /\ callers[1].pc = "miss_store"
    /\ caches[callers[1].cba].mtime < caches[callers[1].cba].atime
    /\ caches[callers[1].cba].item = callers[1].cb

\* Caller t found its key absent and has stored its new slot: it is at, or
\* inside, cb.Execute.
StoredAndExecuting(t) == callers[t].miss /\ callers[t].pc \in {"before", "exec"}

\* C23: a call on the miss path has stored its slot before it enters
\* cb.Execute: while it is at or inside Execute the key has an entry, and a
\* call on the same key that starts then finds an entry, takes the hit path
\* on the slot in the map and, when that is the first caller's slot, executes
\* on the first caller's breaker; it constructs none.
C23_StoredBeforeExecute ==
    /\ [](\A t \in Callers :
            StoredAndExecuting(t) => breakers[callers[t].key] # 0)
    /\ [](\A t \in Callers, u \in Callers :
            (/\ StoredAndExecuting(t) /\ ~callers[u].miss
             /\ callers[u].pc \in {"before", "exec"}
             /\ callers[u].cba = callers[t].cba)
               => callers[u].cb = callers[t].cb)
    /\ [][\A t \in Callers, u \in Callers :
            (/\ StoredAndExecuting(t) /\ u # t
             /\ callers[u].pc = "idle" /\ callers'[u].pc # "idle"
             /\ callers'[u].key = callers[t].key)
               => /\ callers'[u].pc = "hit" /\ ~callers'[u].miss
                  /\ callers'[u].cba = breakers[callers[t].key]
                  /\ made' = made]_vars

\* The first call on the key is inside its closure and a second call, begun
\* after the store, is inside its closure on the same breaker, the only one made.
C23_Witness ==
    \E t \in Callers, u \in Callers :
        /\ callers[t].miss /\ callers[t].pc = "exec"
        /\ ~callers[u].miss /\ callers[u].pc = "exec"
        /\ callers[u].cb = callers[t].cb /\ made["no"] = 1 /\ calls = 2

\* C24: every breaker Get(key) or GetKeyExec(key, exec) constructs is named
\* key, also when exec differs: so is the breaker of every entry of the map
\* and the breaker of every call; no step changes the template c.st, whose
\* Name stays the one passed to NewMux.
C24_NamedKeyTemplateKept ==
    /\ [][st' = st]_vars
    /\ [](st \in SettingsSet)
    /\ [](\A k \in Keys : breakers[k] # 0 => BreakerOf(k).name = k)
    /\ [](\A t \in Callers :
            callers[t].cb # 0 => cbs[callers[t].cb].name = callers[t].key)
    /\ [](ret.done => ret.name = ret.key)

\* GetKeyExec(key, exec) with exec other than key has returned from a breaker
\* it constructed, named key, the second breaker made from the template,
\* whose Name is still the one passed to NewMux.
C24_Witness ==
    /\ ret.done /\ ret.miss /\ ret.key # ret.exec /\ ret.name = ret.key
    /\ \A k \in Keys : made[k] = 1 /\ breakers[k] # 0
    /\ st.Name = "mux"

\* The operations that take entries out of the map.
Removals == {"Delete", "Clear", "Close", "expire", "tick"}

\* C25: while a call is inside its closure, Delete, Clear, the second
\* statement of Close and the Delete of a sweep can all take their step; such
\* a step empties the keys it is about and touches neither the call nor its
\* breaker; and the call leaves the closure only by returning the closure's
\* own value and error.
C25_ExecutionOutlivesRemoval ==
    /\ [](callers[1].pc = "exec" =>
            /\ ENABLED Delete("no")
            /\ ENABLED Clear
            /\ closer = "signalled" => ENABLED CloseClear
            /\ sched.pc = "delete" => ENABLED SweepDelete)
    /\ [][callers[1].pc = "exec" /\ ret'.op \in Removals =>
            /\ callers' = callers
            /\ cbs'[callers[1].cb] = cbs[callers[1].cb]
            /\ \A k \in ret'.keys : breakers'[k] = 0]_vars
    /\ [][callers[1].pc = "exec" /\ callers'[1] # callers[1] =>
            /\ ret'.done /\ ret'.ran
            /\ ret'.value = ExecClosure(callers[1].exec).value
            /\ ret'.err = ExecClosure(callers[1].exec).err]_vars

\* Close() has just returned, having removed the slot of a call that is
\* inside its closure.
C25_Witness ==
    /\ callers[1].pc = "exec" /\ ret.op = "Close" /\ callers[1].key \in ret.removed
    /\ closer = "returned" /\ breakers[callers[1].key] = 0

\* C26: every slot in the map has an atime at or after its mtime, whatever
\* the interleaving of the calls on its key.
C26_AtimeNotBeforeMtime ==
    \A k \in Keys :
        breakers[k] # 0 => caches[breakers[k]].atime >= caches[breakers[k]].mtime

\* A slot created after the clock's start has just had its atime set back by
\* the later of two overlapping reads, down to its mtime and no further.
C26_Witness ==
    /\ ret.op = "read" /\ ret.atime < ret.prior
    /\ breakers["no"] # 0
    /\ caches[breakers["no"]].mtime > 0
    /\ caches[breakers["no"]].atime = caches[breakers["no"]].mtime

\* C27: a removal by Delete, Clear, a sweep, the periodic Clear or Close
\* leaves its keys without an entry; a call that starts on a key without an
\* entry takes the miss path; the breaker it then executes on is one it has
\* just constructed, closed and with zero Counts; and it runs its closure and
\* returns the closure's error, whatever the state of the key's earlier breaker.
C27_EvictionResets ==
    /\ [][ret'.op \in Removals => \A k \in ret'.keys : breakers'[k] = 0]_vars
    /\ [][(callers[1].pc = "idle" /\ callers'[1].pc # "idle"
            /\ breakers[callers'[1].key] = 0)
              => callers'[1].pc = "miss" /\ callers'[1].miss]_vars
    /\ [](callers[1].miss /\ callers[1].pc = "before" =>
            /\ callers[1].cb = Len(cbs)
            /\ cbs[callers[1].cb].state = "closed"
            /\ cbs[callers[1].cb].counts = ZeroCounts)
    /\ [](ret.done /\ ret.miss =>
            /\ ret.ran /\ ret.gate = "closed"
            /\ ret.value = ExecClosure(ret.exec).value
            /\ ret.err = ExecClosure(ret.exec).err)

\* A call has run its closure on a new breaker of a key whose earlier
\* breaker was open when its slot was removed: the observer's last report for
\* the key, made before the call started, is still "open".
C27_Witness ==
    /\ callers[1].pc = "exec" /\ callers[1].miss /\ callers[1].cb > 1
    /\ reported[callers[1].key] = "open"
    /\ cbs[callers[1].cb].state = "closed"
    /\ cbs[callers[1].cb].counts.TotalFailures = 0

\* The slots that are or have been in the map and can still be reached: those
\* in the map, those a caller loaded from it, those a caller stored in it.
Published ==
    ({breakers[k] : k \in Keys} \ {0})
    \cup {callers[t].cba : t \in {u \in Callers :
                 callers[u].pc \in {"hit", "hit_store", "before", "exec"}}}

\* C28: an entry of the map changes to a slot only by the Store of a call on
\* the miss path, under the call's own key, and the slot is the one that call
\* constructed, which has never been in the map; the steps of a call leave
\* the entries of every other key alone and the steps of its hit path and of
\* Execute leave the whole map alone: no slot that left the map comes back.
C28_NeverPutBack ==
    /\ [][\A k \in Keys :
            breakers'[k] # breakers[k] /\ breakers'[k] # 0 =>
                /\ breakers'[k] \notin Published
                /\ \E t \in Callers :
                      /\ callers[t].pc = "miss_store" /\ callers'[t].pc = "before"
                      /\ callers[t].key = k /\ callers[t].cba = breakers'[k]]_vars
    /\ [][\A t \in Callers :
            callers'[t] # callers[t] =>
                /\ \A k2 \in Keys \ {StepKey(t)} : breakers'[k2] = breakers[k2]
                /\ callers[t].pc \in {"hit", "hit_store", "before", "exec"}
                      => breakers' = breakers]_vars
    /\ [](\A t \in Callers :
            callers[t].pc \in {"miss_atime", "miss_store"} =>
                /\ callers[t].cba \notin Published
                /\ \A u \in Callers \ {t} : callers[u].cba # callers[t].cba)

\* A call has read, and is executing on the breaker of, a slot that was
\* removed from the map after the call loaded it, while the map holds for
\* the key a newer slot another call made.
C28_Witness ==
    \E t \in Callers :
        /\ ~callers[t].miss /\ callers[t].pc = "exec"
        /\ breakers[callers[t].key] \notin {0, callers[t].cba}
        /\ breakers[callers[t].key] > callers[t].cba

=============================================================================
